---------------------------- MODULE Spec2Model ----------------------------
(***************************************************************************)
(* A model of data_collection.py: the shared rate limiter, the per-tile    *)
(* metadata fetch with retry/backoff, the harvest loop with its two        *)
(* de-duplication sets, the per-city sampling, and the concurrent          *)
(* resumable downloader.                                                   *)
(*                                                                         *)
(* The specifications share the module's variables:                        *)
(*   SpecRL      concurrent callers of RateLimiter.wait()                  *)
(*   SpecRLFair  the same under fair scheduling of the callers             *)
(*   Spec        the harvest loop over CITIES followed by the sampling     *)
(*   SpecDL      the download pool, run up to MaxRuns times over one disk  *)
(*   SpecPipe    the whole run: harvest, sampling, download, report        *)
(*   SpecE2E     the whole run in the end-to-end scenario                  *)
(***************************************************************************)
EXTENDS Integers, Sequences, FiniteSets, TLC

(***************************************************************************)
(* Bounds of the model                                                     *)
(***************************************************************************)
\* concurrent callers of rate_limiter.wait()
NumCallers == 3
\* the wall clock stops advancing here
MaxClock == 6
\* regions in CITIES
NumCities == 2
\* tiles that mercantile.tiles yields for the first region
NumTiles == 2
\* distinct record ids the metadata service knows
NumIds == 3
\* records in one metadata response
MaxPayload == 2
\* size of the random generator's state space
RngM == 16
\* records handed to the download phase
MaxSelected == 2
\* bytes in an asset
MaxSize == 2
\* runs of the script over the same MASTER_DIR
MaxRuns == 2

(***************************************************************************)
(* Program constants                                                       *)
(***************************************************************************)
\* min_interval = 1.0 / calls_per_second, in clock ticks
MinInterval == 2
\* MAX_WORKERS
MAX_WORKERS == 30
\* IMAGES_PER_CITY (10000 in the source; scaled to the model's record count)
IMAGES_PER_CITY == 2
\* fetch_images_from_tile(..., retries: int = 3)
RETRIES == 3
\* random.seed(42)
SEED == 42

VARIABLES
    \* ---- rate limiter (SpecRL)
    clock,          \* time.time(), in ticks
    last_called,    \* RateLimiter.last_called
    rl_pc,          \* each caller's position in wait()
    rl_now,         \* each caller's local `now`
    rl_sleep,       \* each caller's local `sleep_time`
    rl_slept_at,    \* the clock when the caller entered time.sleep
    rl_ret,         \* the clock when the caller returned from wait()
    \* ---- harvest and sampling (Spec)
    h_pc,           \* the main thread's position
    city,           \* index in CITIES of the region being harvested / sampled
    retries,        \* the retries argument of fetch_images_from_tile
    t_st,           \* each tile task's position in fetch_images_from_tile
    t_attempt,      \* each tile task's loop variable `attempt`
    t_hist,         \* each tile task's GET outcomes so far
    t_backoff,      \* each tile task's backoff sleeps so far (2 ** attempt part)
    t_admitted,     \* each tile task's returned calls of rate_limiter.wait()
    t_result,       \* each finished tile task's return value
    consumed,       \* tile futures the as_completed loop has handled
    city_images,
    city_seen,
    seen_ids,
    all_images,
    flog,           \* the lines of failed_tiles.log
    rng,            \* the state of the module-level random generator
    images_to_download,
    \* ---- download (SpecDL)
    m_pc,           \* the main thread's position in the download phase
    d_run,          \* which run of the script this is
    d_pc,           \* each download task's position in download()
    d_tmp,          \* each task's loaded value of total_size
    d_data,         \* each task's len(data)
    d_ok,           \* each finished task's first return value
    d_gets,         \* asset GETs each task issued in this run
    d_fail,         \* each failed task's fail_record
    collected,      \* download futures the as_completed loop has handled
    total_size,
    failed_downloads,
    files,          \* the files under MASTER_DIR, by path
    fail_file,      \* the lines of failed_downloads.jsonl
    prev            \* how the previous run ended

rlVars == <<clock, last_called, rl_pc, rl_now, rl_sleep, rl_slept_at, rl_ret>>

taskVars == <<t_st, t_attempt, t_hist, t_backoff, t_admitted, t_result>>

mainVars == <<h_pc, city, consumed, city_images, city_seen, seen_ids,
              all_images, images_to_download>>

hVars == <<retries, taskVars, mainVars, flog, rng>>

dVars == <<m_pc, d_run, d_pc, d_tmp, d_data, d_ok, d_gets, d_fail, collected,
           total_size, failed_downloads, files, fail_file, prev>>

vars == <<rlVars, hVars, dVars>>

Max(a, b) == IF a >= b THEN a ELSE b

(***************************************************************************)
(* RateLimiter                                                             *)
(***************************************************************************)
Callers == 1..NumCallers

\* __init__: last_called = 0.  time.time() is seconds since the epoch, far
\* more than min_interval after 0, so the clock starts min_interval past it.
InitRL ==
    /\ clock = MinInterval
    /\ last_called = 0
    /\ rl_pc = [c \in Callers |-> "idle"]
    /\ rl_now = [c \in Callers |-> 0]
    /\ rl_sleep = [c \in Callers |-> 0]
    /\ rl_slept_at = [c \in Callers |-> 0]
    /\ rl_ret = [c \in Callers |-> 0]

\* sleep_time = max(0, self.min_interval - elapsed)
SleepTime(now, last) == Max(0, MinInterval - (now - last))

\* now = time.time()
RLReadNow(c) ==
    /\ rl_pc[c] = "idle"
    /\ rl_now' = [rl_now EXCEPT ![c] = clock]
    /\ rl_pc' = [rl_pc EXCEPT ![c] = "read"]
    /\ UNCHANGED <<clock, last_called, rl_sleep, rl_slept_at, rl_ret>>
    /\ UNCHANGED <<hVars, dVars>>

\* elapsed = now - self.last_called; sleep_time = ...; if sleep_time > 0:
\* time.sleep(sleep_time) is entered
RLCompute(c) ==
    /\ rl_pc[c] = "read"
    /\ LET st == SleepTime(rl_now[c], last_called) IN
        /\ rl_sleep' = [rl_sleep EXCEPT ![c] = st]
        /\ rl_pc' = [rl_pc EXCEPT ![c] = IF st > 0 THEN "sleep" ELSE "write"]
    /\ rl_slept_at' = [rl_slept_at EXCEPT ![c] = clock]
    /\ UNCHANGED <<clock, last_called, rl_now, rl_ret>>
    /\ UNCHANGED <<hVars, dVars>>

\* faulty variant: the sleeper wakes only at the very tick its time is up
RLWakeExact(c) ==
    /\ rl_pc[c] = "sleep"
    /\ clock = rl_slept_at[c] + rl_sleep[c]
    /\ rl_pc' = [rl_pc EXCEPT ![c] = "write"]
    /\ UNCHANGED <<clock, last_called, rl_now, rl_sleep, rl_slept_at, rl_ret>>
    /\ UNCHANGED <<hVars, dVars>>

\* time.sleep(sleep_time) returns once at least sleep_time has passed
RLWake(c) ==
    /\ rl_pc[c] = "sleep"
    /\ clock >= rl_slept_at[c] + rl_sleep[c]
    /\ rl_pc' = [rl_pc EXCEPT ![c] = "write"]
    /\ UNCHANGED <<clock, last_called, rl_now, rl_sleep, rl_slept_at, rl_ret>>
    /\ UNCHANGED <<hVars, dVars>>

\* self.last_called = time.time(); wait() returns
RLWrite(c) ==
    /\ rl_pc[c] = "write"
    /\ last_called' = clock
    /\ rl_ret' = [rl_ret EXCEPT ![c] = clock]
    /\ rl_pc' = [rl_pc EXCEPT ![c] = "returned"]
    /\ UNCHANGED <<clock, rl_now, rl_sleep, rl_slept_at>>
    /\ UNCHANGED <<hVars, dVars>>

\* the wall clock advances
Tick ==
    /\ clock < MaxClock
    /\ clock' = clock + 1
    /\ UNCHANGED <<last_called, rl_pc, rl_now, rl_sleep, rl_slept_at, rl_ret>>
    /\ UNCHANGED <<hVars, dVars>>

NextRL ==
    \/ \E c \in Callers : RLReadNow(c)
    \/ \E c \in Callers : RLCompute(c)
    \/ \E c \in Callers : RLWake(c)
    \/ \E c \in Callers : RLWrite(c)
    \/ Tick

(***************************************************************************)
(* The metadata service's answers                                          *)
(***************************************************************************)
Cities == 1..NumCities
Tiles == 1..NumTiles
\* list(mercantile.tiles(*bbox, zooms=[14])): the first region's bbox covers
\* NumTiles tiles, every other region's a single tile
TilesOf(c) == IF c = 1 THEN Tiles ELSE {1}
Ids == 1..NumIds
\* a record of the response that carries no "id" key
NoId == 0

\* camera_type values, as character sequences; <<>> is an absent key, which
\* img.get("camera_type", "") turns into "" (the record without id has none)
CamPerspective == <<"p","e","r","s","p","e","c","t","i","v","e">>
CamSpherical == <<"S","p","h","e","r","i","c","a","l">>
CamTypes == {CamPerspective, CamSpherical}

\* ["helmet", "head", "body", "spherical"]
BannedWords == << <<"h","e","l","m","e","t">>, <<"h","e","a","d">>,
                  <<"b","o","d","y">>,
                  <<"s","p","h","e","r","i","c","a","l">> >>

\* str.lower(), on the letters the camera types use
LowerChar(ch) == IF ch = "S" THEN "s" ELSE IF ch = "P" THEN "p" ELSE ch
Lower(str) == [i \in 1..Len(str) |-> LowerChar(str[i])]

\* bad in cam_type
Contains(bad, str) ==
    \E i \in 1..(Len(str) - Len(bad) + 1) :
        SubSeq(str, i, i + Len(bad) - 1) = bad

\* any(bad in cam_type for bad in [...]) with cam_type lower-cased
IsBannedCam(cam) ==
    \E b \in 1..Len(BannedWords) : Contains(BannedWords[b], Lower(cam))

RawRecords == [id : Ids, cam : CamTypes] \cup {[id |-> NoId, cam |-> <<>>]}

SeqsUpTo(S, n) == UNION {[1..k -> S] : k \in 0..n}

\* the "data" arrays a 200 response may carry
Payloads == SeqsUpTo(RawRecords, MaxPayload)

\* what one requests.get can do: no response at all (timeout, connection
\* error), or a response with a status code and a body; a 200 body is either
\* not the JSON the code expects, or a "data" array
Responses ==
    {[kind |-> "timeout", code |-> 0, data |-> <<>>]}
    \cup {[kind |-> "http", code |-> c, data |-> <<>>] : c \in {404, 500}}
    \cup {[kind |-> "badjson", code |-> 200, data |-> <<>>]}
    \cup {[kind |-> "ok", code |-> 200, data |-> p] : p \in Payloads}

(***************************************************************************)
(* fetch_images_from_tile                                                  *)
(***************************************************************************)
RECURSIVE FilterData(_, _)
\* the loop over data: drop banned camera types, tag the rest with the city
FilterData(data, c) ==
    IF data = <<>> THEN <<>>
    ELSE LET img == Head(data)
             rest == FilterData(Tail(data), c)
         IN IF IsBannedCam(img.cam) THEN rest
            ELSE <<[id |-> img.id, city |-> c]>> \o rest

\* resp.raise_for_status()
RaisesForStatus(code) == code >= 400 /\ code < 600

\* faulty variant: every HTTP error is retried
RetryableAnyStatus(code, attempt, n) == code >= 400 /\ attempt < n - 1

\* faulty variant: the last attempt is retried too
RetryableLastAttempt(code, attempt, n) == code >= 500 /\ attempt < n

\* if code >= 500 and attempt < retries - 1
Retryable(code, attempt, n) == code >= 500 /\ attempt < n - 1

\* the error text of a failure entry: f"HTTP {code}: {e}" from the HTTPError
\* handler, f"{type(e).__name__}: {e}" from the other
ErrorText(resp) == IF resp.kind = "http" THEN "HTTP" ELSE "Exception"

\* _log_failed_tile_obj: one line appended to failed_tiles.log
LogFailedTile(log, tile, c, error) ==
    Append(log, [city |-> c, tile |-> tile, error |-> error])

\* random.random(): the generator moves to its next state
RngNext(s) == (5 * s + 3) % RngM

\* 2 ** attempt
Pow2(n) == 2 ^ n

\* the for loop's next iteration, or its end: the function then returns None
AfterContinue(attempt, n) == IF attempt + 1 < n THEN "attempt" ELSE "none"

\* executor.submit: a worker picks the task up; the one rate_limiter.wait()
\* of the call (SpecRL) returns and the bbox is computed, before the loop
TaskStart(t) ==
    /\ h_pc \in {"harvest", "aborted"}
    /\ t \in TilesOf(city)
    /\ t_st[t] = "queued"
    /\ Cardinality({u \in Tiles : t_st[u] \in {"attempt", "backoff"}})
            < MAX_WORKERS
    /\ t_admitted' = [t_admitted EXCEPT ![t] = @ + 1]
    /\ t_st' = [t_st EXCEPT ![t] = IF retries > 0 THEN "attempt" ELSE "none"]
    /\ UNCHANGED <<t_attempt, t_hist, t_backoff, t_result>>
    /\ UNCHANGED <<retries, mainVars, flog, rng>>
    /\ UNCHANGED <<rlVars, dVars>>

\* one iteration of the retry loop: the GET, answered by the service with one
\* of `answers`, and what the try block or the except handlers do with it
Fetch(t, answers) ==
    /\ t_st[t] = "attempt"
    /\ \E resp \in answers :
        /\ t_hist' = [t_hist EXCEPT
                        ![t] = Append(@, [kind |-> resp.kind,
                                          code |-> resp.code])]
        /\ IF resp.kind = "ok" /\ ~RaisesForStatus(resp.code)
           THEN \* return filtered
                /\ t_result' = [t_result EXCEPT
                                    ![t] = FilterData(resp.data, city)]
                /\ t_st' = [t_st EXCEPT ![t] = "done"]
                /\ UNCHANGED <<flog, rng, t_backoff>>
           ELSE IF resp.kind = "http" /\ RaisesForStatus(resp.code)
                   /\ Retryable(resp.code, t_attempt[t], retries)
           THEN \* wait = 2 ** attempt + random.random(); time.sleep(wait)
                /\ rng' = RngNext(rng)
                /\ t_backoff' = [t_backoff EXCEPT
                                    ![t] = Append(@, Pow2(t_attempt[t]))]
                /\ t_st' = [t_st EXCEPT ![t] = "backoff"]
                /\ UNCHANGED <<flog, t_result>>
           ELSE \* either handler: log the failure, return []
                /\ flog' = LogFailedTile(flog, t, city, ErrorText(resp))
                /\ t_result' = [t_result EXCEPT ![t] = <<>>]
                /\ t_st' = [t_st EXCEPT ![t] = "done"]
                /\ UNCHANGED <<rng, t_backoff>>
    /\ UNCHANGED <<t_attempt, t_admitted, retries, mainVars>>
    /\ UNCHANGED <<rlVars, dVars>>

\* requests.get against a service that may answer anything
FetchAttempt(t) == Fetch(t, Responses)

\* time.sleep(wait) returns; continue
BackoffDone(t) ==
    /\ t_st[t] = "backoff"
    /\ t_st' = [t_st EXCEPT ![t] = AfterContinue(t_attempt[t], retries)]
    /\ t_attempt' = [t_attempt EXCEPT ![t] = @ + 1]
    /\ UNCHANGED <<t_hist, t_backoff, t_admitted, t_result>>
    /\ UNCHANGED <<retries, mainVars, flog, rng>>
    /\ UNCHANGED <<rlVars, dVars>>

(***************************************************************************)
(* The harvest loop                                                        *)
(***************************************************************************)
IdsOf(imgs) == {imgs[i].id : i \in 1..Len(imgs)}

NoRepeatedId(imgs) ==
    \A i, j \in 1..Len(imgs) : i # j => imgs[i].id # imgs[j].id

\* faulty variant: every record is admitted, seen before or not
AdmitsEvery(img_id, seen, cseen) == TRUE

\* faulty variant: only the region's own set is consulted
AdmitsCityOnly(img_id, seen, cseen) == img_id \notin cseen

\* if img_id not in seen_ids and img_id not in city_seen
Admits(img_id, seen, cseen) == img_id \notin seen /\ img_id \notin cseen

RECURSIVE AdmitAll(_, _)
\* for img in imgs: ... ; img["id"] raises KeyError on a record without id,
\* which ends the loop (and the script) with what was admitted before it
AdmitAll(imgs, st) ==
    IF imgs = <<>> THEN st
    ELSE LET img == Head(imgs) IN
         IF img.id = NoId THEN [st EXCEPT !.raised = TRUE]
         ELSE IF Admits(img.id, st.seen, st.cseen)
              THEN AdmitAll(Tail(imgs),
                            [images |-> Append(st.images, img),
                             cseen |-> st.cseen \cup {img.id},
                             seen |-> st.seen \cup {img.id},
                             raised |-> FALSE])
              ELSE AdmitAll(Tail(imgs), st)

FreshTasks ==
    /\ t_st' = [t \in Tiles |-> "queued"]
    /\ t_attempt' = [t \in Tiles |-> 0]
    /\ t_hist' = [t \in Tiles |-> <<>>]
    /\ t_backoff' = [t \in Tiles |-> <<>>]
    /\ t_admitted' = [t \in Tiles |-> 0]
    /\ t_result' = [t \in Tiles |-> <<>>]

InitH ==
    /\ h_pc = "harvest"
    /\ city = 1
    /\ retries \in 1..RETRIES
    /\ t_st = [t \in Tiles |-> "queued"]
    /\ t_attempt = [t \in Tiles |-> 0]
    /\ t_hist = [t \in Tiles |-> <<>>]
    /\ t_backoff = [t \in Tiles |-> <<>>]
    /\ t_admitted = [t \in Tiles |-> 0]
    /\ t_result = [t \in Tiles |-> <<>>]
    /\ consumed = {}
    /\ city_images = <<>>
    /\ city_seen = {}
    /\ seen_ids = {}
    /\ all_images = <<>>
    /\ flog = <<>>
    /\ rng = SEED % RngM
    /\ images_to_download = <<>>

\* as_completed yields a finished future; imgs = future.result(); the loop
\* over imgs.  A None result makes `for img in imgs` raise TypeError.
Consume(t) ==
    /\ h_pc = "harvest"
    /\ t_st[t] \in {"done", "none"}
    /\ t \notin consumed
    /\ consumed' = consumed \cup {t}
    /\ LET st == AdmitAll(t_result[t],
                          [images |-> city_images, cseen |-> city_seen,
                           seen |-> seen_ids, raised |-> FALSE])
       IN IF t_st[t] = "none"
          THEN /\ h_pc' = "aborted"
               /\ UNCHANGED <<city_images, city_seen, seen_ids>>
          ELSE /\ city_images' = st.images
               /\ city_seen' = st.cseen
               /\ seen_ids' = st.seen
               /\ h_pc' = IF st.raised THEN "aborted" ELSE "harvest"
    /\ UNCHANGED <<city, all_images, images_to_download>>
    /\ UNCHANGED <<retries, taskVars, flog, rng>>
    /\ UNCHANGED <<rlVars, dVars>>

\* faulty variant: the loop over the futures ends after the first of them
FirstYielded == consumed # {}

\* as_completed(future_to_tile) is exhausted: every future was yielded
AllYielded == consumed = TilesOf(city)

\* every future was yielded: the pool shuts down, the snapshot is written,
\* all_images.extend(city_images), and the loop over CITIES (n regions) goes on
EndCityOf(n) ==
    /\ h_pc = "harvest"
    /\ AllYielded
    /\ all_images' = all_images \o city_images
    /\ city_images' = <<>>
    /\ city_seen' = {}
    /\ consumed' = {}
    /\ FreshTasks
    /\ IF city < n
       THEN /\ city' = city + 1
            /\ h_pc' = "harvest"
       ELSE /\ city' = 1
            /\ h_pc' = "sample"
    /\ UNCHANGED <<seen_ids, images_to_download>>
    /\ UNCHANGED <<retries, flog, rng>>
    /\ UNCHANGED <<rlVars, dVars>>

EndCity == EndCityOf(NumCities)

(***************************************************************************)
(* Sampling                                                                *)
(***************************************************************************)
\* random's randbelow(n): a draw from the generator, reduced to 0..n-1
RandBelow(s, n) == RngNext(s) % n

RECURSIVE SampleWithReplacement(_, _, _, _)
\* faulty variant: the picked element stays in the pool
SampleWithReplacement(pool, n, k, s) ==
    IF k = 0 THEN [sel |-> <<>>, rng |-> s]
    ELSE LET j == RandBelow(s, n) + 1
             rest == SampleWithReplacement(pool, n - 1, k - 1, RngNext(s))
         IN [sel |-> <<pool[j]>> \o rest.sel, rng |-> rest.rng]

RECURSIVE SamplePool(_, _, _, _)
\* random.sample(population, k): k times, pick pool[randbelow(n - i)] and
\* move the last live element of the pool into its place
SamplePool(pool, n, k, s) ==
    IF k = 0 THEN [sel |-> <<>>, rng |-> s]
    ELSE LET j == RandBelow(s, n) + 1
             rest == SamplePool([pool EXCEPT ![j] = pool[n]], n - 1, k - 1,
                                RngNext(s))
         IN [sel |-> <<pool[j]>> \o rest.sel, rng |-> rest.rng]

\* city_imgs = [img for img in all_images if img["city"] == city]
CityImgs(imgs, c) == LET T(img) == img.city = c IN SelectSeq(imgs, T)

\* if len(city_imgs) <= IMAGES_PER_CITY: selected = city_imgs
\* else: selected = random.sample(city_imgs, IMAGES_PER_CITY)
\* with cap the value of IMAGES_PER_CITY
SelectUpTo(city_imgs, cap, s) ==
    IF Len(city_imgs) <= cap
    THEN [sel |-> city_imgs, rng |-> s]
    ELSE SamplePool(city_imgs, Len(city_imgs), cap, s)

Select(city_imgs, s) == SelectUpTo(city_imgs, IMAGES_PER_CITY, s)

\* one iteration of the loop over CITIES.keys(), CITIES holding n regions
SampleCityOf(n, cap) ==
    /\ h_pc = "sample"
    /\ LET r == SelectUpTo(CityImgs(all_images, city), cap, rng) IN
        /\ images_to_download' = images_to_download \o r.sel
        /\ rng' = r.rng
    /\ IF city < n
       THEN /\ city' = city + 1
            /\ h_pc' = "sample"
       ELSE /\ city' = city
            /\ h_pc' = "sampled"
    /\ UNCHANGED <<consumed, city_images, city_seen, seen_ids, all_images>>
    /\ UNCHANGED <<retries, taskVars, flog>>
    /\ UNCHANGED <<rlVars, dVars>>

SampleCity == SampleCityOf(NumCities, IMAGES_PER_CITY)

NextH ==
    \/ \E t \in Tiles : TaskStart(t)
    \/ \E t \in Tiles : FetchAttempt(t)
    \/ \E t \in Tiles : BackoffDone(t)
    \/ \E t \in Tiles : Consume(t)
    \/ EndCity
    \/ SampleCity

(***************************************************************************)
(* The download phase                                                      *)
(***************************************************************************)
\* path = os.path.join(MASTER_DIR, city, f"{img_id}.jpg")
PathOf(img) == <<img.city, img.id>>

Paths == Cities \X Ids

\* url = img.get("thumb_1024_url"): the asset URL the service gave the record
UrlOf(img) == <<"thumb_1024_url", img.id>>

NoFile == [exists |-> FALSE, size |-> 0, full |-> FALSE]

Recs == 1..Len(images_to_download)

\* len(data) of an asset
Sizes == 1..MaxSize

\* the selections the sampling loop can hand over: records with distinct ids,
\* grouped by city in CITIES order
Selections ==
    {sel \in SeqsUpTo([id : Ids, city : Cities], MaxSelected) :
        /\ sel # <<>>
        /\ NoRepeatedId(sel)
        /\ \A i, j \in 1..Len(sel) :
              i < j => /\ sel[i].city <= sel[j].city
                       /\ sel[i].id < sel[j].id}

FreshDownloads ==
    /\ d_pc' = [r \in Recs |-> "queued"]
    /\ d_tmp' = [r \in Recs |-> 0]
    /\ d_data' = [r \in Recs |-> 0]
    /\ d_ok' = [r \in Recs |-> FALSE]
    /\ d_gets' = [r \in Recs |-> 0]
    /\ d_fail' = [r \in Recs |-> <<>>]

\* os.makedirs(MASTER_DIR, exist_ok=True); total_size = 0;
\* failed_downloads = []; pool.submit(download, img) for every selected record
InitD ==
    /\ m_pc = "idle"
    /\ d_run = 1
    /\ d_pc = [r \in Recs |-> "queued"]
    /\ d_tmp = [r \in Recs |-> 0]
    /\ d_data = [r \in Recs |-> 0]
    /\ d_ok = [r \in Recs |-> FALSE]
    /\ d_gets = [r \in Recs |-> 0]
    /\ d_fail = [r \in Recs |-> <<>>]
    /\ collected = {}
    /\ total_size = 0
    /\ failed_downloads = <<>>
    /\ files = [p \in Paths |-> NoFile]
    /\ fail_file = <<>>
    /\ prev = [reported |-> FALSE, fetched_all |-> FALSE, total |-> 0,
               files |-> [p \in Paths |-> NoFile]]

\* the state the download phase starts from: sampling has finished
InitSampled ==
    /\ h_pc = "sampled"
    /\ city = NumCities
    /\ retries = RETRIES
    /\ t_st = [t \in Tiles |-> "queued"]
    /\ t_attempt = [t \in Tiles |-> 0]
    /\ t_hist = [t \in Tiles |-> <<>>]
    /\ t_backoff = [t \in Tiles |-> <<>>]
    /\ t_admitted = [t \in Tiles |-> 0]
    /\ t_result = [t \in Tiles |-> <<>>]
    /\ consumed = {}
    /\ city_images = <<>>
    /\ city_seen = {}
    /\ images_to_download \in Selections
    /\ all_images = images_to_download
    /\ seen_ids = IdsOf(images_to_download)
    /\ flog = <<>>
    /\ rng = SEED % RngM

\* total_size = 0; failed_downloads = []; the pool is entered and every
\* record submitted
StartDownloads ==
    /\ h_pc = "sampled"
    /\ m_pc = "idle"
    /\ m_pc' = "pool"
    /\ total_size' = 0
    /\ failed_downloads' = <<>>
    /\ collected' = {}
    /\ FreshDownloads
    /\ UNCHANGED <<d_run, files, fail_file, prev>>
    /\ UNCHANGED <<rlVars, hVars>>

Running(r) == d_pc[r] \notin {"queued", "done", "raised"}

TaskLive == m_pc \in {"pool", "aborted"}

\* return False, {...}
FailRecord(img) == [city |-> img.city, id |-> img.id, url |-> UrlOf(img)]

Fails(r) ==
    /\ d_pc' = [d_pc EXCEPT ![r] = "done"]
    /\ d_ok' = [d_ok EXCEPT ![r] = FALSE]
    /\ d_fail' = [d_fail EXCEPT ![r] = FailRecord(images_to_download[r])]

\* a worker picks the task up: path, os.makedirs(dirname, exist_ok=True),
\* which is outside the try block, and the os.path.exists(path) test
DLStart(r) ==
    /\ TaskLive
    /\ d_pc[r] = "queued"
    /\ Cardinality({u \in Recs : Running(u)}) < MAX_WORKERS
    /\ \/ \* os.makedirs raises OSError: the exception leaves download()
          /\ d_pc' = [d_pc EXCEPT ![r] = "raised"]
       \/ /\ d_pc' = [d_pc EXCEPT ![r] =
                IF files[PathOf(images_to_download[r])].exists
                THEN "skip_load" ELSE "get"]
    /\ UNCHANGED <<m_pc, d_run, d_tmp, d_data, d_ok, d_gets, d_fail, collected,
                   total_size, failed_downloads, files, fail_file, prev>>
    /\ UNCHANGED <<rlVars, hVars>>

\* total_size += ... : the global is loaded before the right-hand side runs
DLLoad(r) ==
    /\ TaskLive
    /\ d_pc[r] \in {"skip_load", "add_load"}
    /\ d_tmp' = [d_tmp EXCEPT ![r] = total_size]
    /\ d_pc' = [d_pc EXCEPT ![r] =
                    IF d_pc[r] = "skip_load" THEN "skip_store" ELSE "add_store"]
    /\ UNCHANGED <<m_pc, d_run, d_data, d_ok, d_gets, d_fail, collected,
                   total_size, failed_downloads, files, fail_file, prev>>
    /\ UNCHANGED <<rlVars, hVars>>

\* what the task adds: os.path.getsize(path) when skipping, else len(data)
Increment(r) ==
    IF d_pc[r] = "skip_store"
    THEN files[PathOf(images_to_download[r])].size
    ELSE d_data[r]

\* ... and the sum of the loaded value is stored back; return True, None
StoredTotal(r) == d_tmp[r] + Increment(r)

DLStore(r) ==
    /\ TaskLive
    /\ d_pc[r] \in {"skip_store", "add_store"}
    /\ total_size' = StoredTotal(r)
    /\ d_pc' = [d_pc EXCEPT ![r] = "done"]
    /\ d_ok' = [d_ok EXCEPT ![r] = TRUE]
    /\ UNCHANGED <<m_pc, d_run, d_tmp, d_data, d_gets, d_fail, collected,
                   failed_downloads, files, fail_file, prev>>
    /\ UNCHANGED <<rlVars, hVars>>

\* r = requests.get(url, timeout=15); r.raise_for_status(); data = r.content
DLGet(r) ==
    /\ TaskLive
    /\ d_pc[r] = "get"
    /\ d_gets' = [d_gets EXCEPT ![r] = @ + 1]
    /\ \/ \E n \in Sizes :
            /\ d_data' = [d_data EXCEPT ![r] = n]
            /\ d_pc' = [d_pc EXCEPT ![r] = "open"]
            /\ UNCHANGED <<d_ok, d_fail>>
       \/ \* network error or non-success status
          /\ Fails(r)
          /\ UNCHANGED d_data
    /\ UNCHANGED <<m_pc, d_run, d_tmp, collected, total_size,
                   failed_downloads, files, fail_file, prev>>
    /\ UNCHANGED <<rlVars, hVars>>

\* open(path, "wb"): the file is created empty at the target path
DLOpen(r) ==
    /\ TaskLive
    /\ d_pc[r] = "open"
    /\ \/ /\ files' = [files EXCEPT ![PathOf(images_to_download[r])] =
                          [exists |-> TRUE, size |-> 0, full |-> FALSE]]
          /\ d_pc' = [d_pc EXCEPT ![r] = "write"]
          /\ UNCHANGED <<d_ok, d_fail>>
       \/ \* open raises
          /\ Fails(r)
          /\ UNCHANGED files
    /\ UNCHANGED <<m_pc, d_run, d_tmp, d_data, d_gets, collected, total_size,
                   failed_downloads, fail_file, prev>>
    /\ UNCHANGED <<rlVars, hVars>>

\* f.write(data) and the close of the with block
DLWrite(r) ==
    /\ TaskLive
    /\ d_pc[r] = "write"
    /\ \/ /\ files' = [files EXCEPT ![PathOf(images_to_download[r])] =
                          [exists |-> TRUE, size |-> d_data[r], full |-> TRUE]]
          /\ d_pc' = [d_pc EXCEPT ![r] = "add_load"]
          /\ UNCHANGED <<d_ok, d_fail>>
       \/ \* the write raises after k < len(data) bytes
          \E k \in 0..(d_data[r] - 1) :
            /\ files' = [files EXCEPT ![PathOf(images_to_download[r])] =
                            [exists |-> TRUE, size |-> k, full |-> FALSE]]
            /\ Fails(r)
    /\ UNCHANGED <<m_pc, d_run, d_tmp, d_data, d_gets, collected, total_size,
                   failed_downloads, fail_file, prev>>
    /\ UNCHANGED <<rlVars, hVars>>

\* as_completed yields a finished future; ok, fail_record = future.result(),
\* which re-raises an exception that left download()
Collect(r) ==
    /\ m_pc = "pool"
    /\ d_pc[r] \in {"done", "raised"}
    /\ r \notin collected
    /\ collected' = collected \cup {r}
    /\ IF d_pc[r] = "raised"
       THEN /\ m_pc' = "aborted"
            /\ UNCHANGED failed_downloads
       ELSE /\ m_pc' = "pool"
            /\ failed_downloads' =
                  IF d_ok[r] THEN failed_downloads
                  ELSE Append(failed_downloads, d_fail[r])
    /\ UNCHANGED <<d_run, d_pc, d_tmp, d_data, d_ok, d_gets, d_fail,
                   total_size, files, fail_file, prev>>
    /\ UNCHANGED <<rlVars, hVars>>

\* the pool is left; if failed_downloads: the failure file is opened with
\* mode 'w' and written; the DONE line is printed
Report ==
    /\ m_pc = "pool"
    /\ collected = Recs
    /\ m_pc' = "reported"
    /\ fail_file' = IF failed_downloads # <<>> THEN failed_downloads
                    ELSE fail_file
    /\ UNCHANGED <<d_run, d_pc, d_tmp, d_data, d_ok, d_gets, d_fail, collected,
                   total_size, failed_downloads, files, prev>>
    /\ UNCHANGED <<rlVars, hVars>>

\* a process-level interrupt abandons the tasks in flight
Interrupt ==
    /\ m_pc = "pool"
    /\ m_pc' = "interrupted"
    /\ UNCHANGED <<d_run, d_pc, d_tmp, d_data, d_ok, d_gets, d_fail, collected,
                   total_size, failed_downloads, files, fail_file, prev>>
    /\ UNCHANGED <<rlVars, hVars>>

AllFinished == \A r \in Recs : d_pc[r] \in {"done", "raised"}

\* the script is run again over the same selection and the same MASTER_DIR:
\* the disk keeps its files, the globals start afresh
RunAgain ==
    /\ \/ m_pc \in {"reported", "interrupted"}
       \/ m_pc = "aborted" /\ AllFinished
    /\ d_run < MaxRuns
    /\ d_run' = d_run + 1
    /\ prev' = [reported |-> m_pc = "reported",
                fetched_all |-> \A r \in Recs : d_ok[r] /\ d_gets[r] = 1,
                total |-> total_size,
                files |-> files]
    /\ m_pc' = "pool"
    /\ total_size' = 0
    /\ failed_downloads' = <<>>
    /\ collected' = {}
    /\ FreshDownloads
    /\ UNCHANGED <<files, fail_file>>
    /\ UNCHANGED <<rlVars, hVars>>

NextDL ==
    \/ StartDownloads
    \/ \E r \in Recs : DLStart(r)
    \/ \E r \in Recs : DLLoad(r)
    \/ \E r \in Recs : DLStore(r)
    \/ \E r \in Recs : DLGet(r)
    \/ \E r \in Recs : DLOpen(r)
    \/ \E r \in Recs : DLWrite(r)
    \/ \E r \in Recs : Collect(r)
    \/ Report
    \/ Interrupt
    \/ RunAgain

(***************************************************************************)
(* The whole run                                                           *)
(***************************************************************************)
\* the "data" arrays of a small metadata service: an empty tile, a tile with
\* a record next to a banned one, a tile with two records, a malformed one
PipePayloads ==
    { <<>>,
      <<[id |-> 1, cam |-> CamPerspective], [id |-> 2, cam |-> CamSpherical]>>,
      <<[id |-> 2, cam |-> CamPerspective], [id |-> 3, cam |-> CamPerspective]>>,
      <<[id |-> NoId, cam |-> <<>>]>> }

PipeResponses ==
    {resp \in Responses : resp.kind = "ok" => resp.data \in PipePayloads}

\* the script from its first line to its last: harvest, sampling, download
NextPipe ==
    \/ \E t \in Tiles : TaskStart(t)
    \/ \E t \in Tiles : Fetch(t, PipeResponses)
    \/ \E t \in Tiles : BackoffDone(t)
    \/ \E t \in Tiles : Consume(t)
    \/ EndCity
    \/ SampleCity
    \/ StartDownloads
    \/ \E r \in Recs : DLStart(r)
    \/ \E r \in Recs : DLLoad(r)
    \/ \E r \in Recs : DLStore(r)
    \/ \E r \in Recs : DLGet(r)
    \/ \E r \in Recs : DLOpen(r)
    \/ \E r \in Recs : DLWrite(r)
    \/ \E r \in Recs : Collect(r)
    \/ Report

(***************************************************************************)
(* The end-to-end scenario: one region, IMAGES_PER_CITY = 5, a metadata    *)
(* endpoint whose tiles return 8 unique records, 2 of them with a banned   *)
(* camera type, every request succeeding, an empty MASTER_DIR              *)
(***************************************************************************)
\* IMAGES_PER_CITY in the scenario
ScenarioCap == 5

ScenarioIds == 1..8

\* the "data" array of tile t: ids 1..4 and 5..8, the last of each banned
ScenarioData(t) ==
    [i \in 1..4 |->
        [id |-> 4 * (t - 1) + i,
         cam |-> IF i = 4 THEN CamSpherical ELSE CamPerspective]]

ScenarioResponse(t) == [kind |-> "ok", code |-> 200, data |-> ScenarioData(t)]

\* len(r.content) of the asset of record id
ScenarioSize(id) == 1 + (id % 2)

\* the module's initialisation with MASTER_DIR empty
InitE2E ==
    /\ InitRL
    /\ InitH
    /\ retries = RETRIES
    /\ m_pc = "idle"
    /\ d_run = 1
    /\ d_pc = <<>>
    /\ d_tmp = <<>>
    /\ d_data = <<>>
    /\ d_ok = <<>>
    /\ d_gets = <<>>
    /\ d_fail = <<>>
    /\ collected = {}
    /\ total_size = 0
    /\ failed_downloads = <<>>
    /\ files = [p \in {1} \X ScenarioIds |-> NoFile]
    /\ fail_file = <<>>
    /\ prev = [reported |-> FALSE, fetched_all |-> FALSE, total |-> 0,
               files |-> [p \in {1} \X ScenarioIds |-> NoFile]]

\* the script run against the scenario's endpoints: every metadata GET is
\* answered with the tile's records, every directory can be made, every asset
\* GET returns the asset, every file can be opened and written
NextE2E ==
    \/ \E t \in Tiles : TaskStart(t)
    \/ \E t \in Tiles : Fetch(t, {ScenarioResponse(t)})
    \/ \E t \in Tiles : Consume(t)
    \/ EndCityOf(1)
    \/ SampleCityOf(1, ScenarioCap)
    \/ StartDownloads
    \/ \E r \in Recs : DLStart(r) /\ d_pc'[r] = "get"
    \/ \E r \in Recs :
          /\ DLGet(r)
          /\ d_pc'[r] = "open"
          /\ d_data'[r] = ScenarioSize(images_to_download[r].id)
    \/ \E r \in Recs : DLOpen(r) /\ d_pc'[r] = "write"
    \/ \E r \in Recs : DLWrite(r) /\ d_pc'[r] = "add_load"
    \/ \E r \in Recs : DLLoad(r)
    \/ \E r \in Recs : DLStore(r)
    \/ \E r \in Recs : Collect(r)
    \/ Report

(***************************************************************************)
(* Specifications                                                          *)
(***************************************************************************)
Init == InitRL /\ InitH /\ InitD

SpecRL == Init /\ [][NextRL]_vars

\* the scheduler runs every thread that can run, and time passes: a worker
\* inside wait() takes its next step, a sleeper whose time is up wakes
SpecRLFair ==
    /\ Init
    /\ [][NextRL]_vars
    /\ WF_vars(Tick)
    /\ \A c \in Callers :
          WF_vars(RLCompute(c)) /\ WF_vars(RLWake(c)) /\ WF_vars(RLWrite(c))

Spec == Init /\ [][NextH]_vars

SpecPipe == Init /\ [][NextPipe]_vars

SpecE2E == InitE2E /\ [][NextE2E]_vars

InitDL == InitRL /\ InitSampled /\ InitD

SpecDL == InitDL /\ [][NextDL]_vars

(***************************************************************************)
(* Rate limiter properties                                                 *)
(***************************************************************************)
\* C1: no two calls of wait() return less than min_interval apart, for every
\* interleaving of the callers' read / sleep / write steps.
C1_MinSpacing ==
    \A a, b \in Callers :
        (a # b /\ rl_pc[a] = "returned" /\ rl_pc[b] = "returned")
            => (rl_ret[a] - rl_ret[b] >= MinInterval
                \/ rl_ret[b] - rl_ret[a] >= MinInterval)

\* the caller sleeps until a time the bounded clock does not reach
WakesPastClockRange(c) ==
    rl_pc[c] = "sleep" /\ rl_slept_at[c] + rl_sleep[c] > MaxClock

\* C18: wait() never raises (time.sleep is never handed a negative time) and
\* every worker that has called it returns from it, for any number of
\* concurrent callers and any interleaving, as far as the clock is modelled.
C18_WaitReturns ==
    /\ [](\A c \in Callers : rl_sleep[c] >= 0)
    /\ \A c \in Callers :
          (rl_pc[c] = "read")
              ~> (rl_pc[c] = "returned" \/ WakesPastClockRange(c))

\* all callers were inside wait() together, two of them slept, all returned
C18_Witness ==
    /\ \A c \in Callers : rl_pc[c] = "returned"
    /\ \E a, b \in Callers : a # b /\ rl_sleep[a] > 0 /\ rl_sleep[b] > 0
    /\ \A a, b \in Callers : rl_now[a] <= rl_ret[b]

(***************************************************************************)
(* Harvest and fetch properties                                            *)
(***************************************************************************)
\* C2: no record id is admitted twice: the harvested lists of the regions
\* done so far and of the region in progress hold no id twice, within one
\* region or across two, and every record carries its own region's tag.
C2_NoDuplicateAdmission ==
    /\ NoRepeatedId(all_images \o city_images)
    /\ \A i \in 1..Len(city_images) : city_images[i].city = city

\* a second region's tile returned an id the first region had admitted,
\* next to one that is new, and the loop has handled it
C2_Witness ==
    /\ h_pc = "harvest"
    /\ city = 2
    /\ 1 \in consumed
    /\ Len(t_result[1]) = 2
    /\ t_result[1][1].id \in IdsOf(all_images)
    /\ t_result[1][2].id \in IdsOf(city_images)

LastOf(h) == h[Len(h)]

\* C4: a timeout of the metadata GET consumes one attempt and is retried
\* while attempts remain: a call that ended on a timeout had used them all.
C4_TimeoutRetried ==
    \A t \in Tiles :
        (t_st[t] = "done" /\ t_hist[t] # <<>>
         /\ LastOf(t_hist[t]).kind = "timeout")
            => Len(t_hist[t]) = retries

RECURSIVE SortedSeq(_)
SortedSeq(S) ==
    IF S = {} THEN <<>>
    ELSE LET m == CHOOSE x \in S : \A y \in S : x <= y
         IN <<m>> \o SortedSeq(S \ {m})

\* a region's harvested records in a fixed order (ascending id)
CanonicalImgs(c) ==
    LET ids == SortedSeq(IdsOf(CityImgs(all_images, c)))
    IN [i \in 1..Len(ids) |-> [id |-> ids[i], city |-> c]]

RECURSIVE CanonicalSelection(_, _)
\* what the sampling loop selects from the harvested sets alone, the
\* generator starting from the seed: the selection of the run in which the
\* tiles complete in id order and no fetch is retried
CanonicalSelection(c, s) ==
    IF c > NumCities THEN <<>>
    ELSE LET r == Select(CanonicalImgs(c), s)
         IN r.sel \o CanonicalSelection(c + 1, r.rng)

\* C7: the selection is a function of the seed and of each region's set of
\* harvested records: it does not depend on the order in which the tile
\* tasks completed nor on the number of jitter draws during harvesting.
C7_SelectionReproducible ==
    h_pc = "sampled"
        => IdsOf(images_to_download)
             = IdsOf(CanonicalSelection(1, SEED % RngM))

WellFormed(imgs) == \A i \in 1..Len(imgs) : imgs[i].id # NoId

\* C8: a failure in one tile task leaves its siblings' outcome as if the task
\* had returned nothing: once every task of the region has finished, the
\* records of every well-formed sibling answer are admitted or were already.
C8_FetchFailureContained ==
    (h_pc = "aborted" /\ \A t \in TilesOf(city) : t_st[t] = "done")
        => \A t \in TilesOf(city) :
               WellFormed(t_result[t]) => IdsOf(t_result[t]) \subseteq seen_ids

\* C9: a call issues at most `retries` GETs; every GET but the last was
\* answered with a status >= 500 while attempts remained and was followed by
\* a backoff of 2^attempt (plus jitter); a 4xx answer or a malformed payload
\* is the last GET of its call.
C9_RetryOnlyOnServerError ==
    \A t \in Tiles :
        LET h == t_hist[t] IN
        /\ Len(h) <= retries
        /\ \A i \in 1..(Len(h) - 1) :
              /\ h[i].kind = "http" /\ h[i].code >= 500
              /\ i < retries
              /\ Len(t_backoff[t]) >= i
              /\ t_backoff[t][i] = 2 ^ (i - 1)
        /\ (t_st[t] \in {"attempt", "backoff"} /\ h # <<>>)
              => (LastOf(h).kind = "http" /\ LastOf(h).code >= 500)
        /\ t_st[t] = "attempt" => Len(t_backoff[t]) = Len(h)

\* a call that was answered 5xx twice and issued its third GET
C9_Witness ==
    \E t \in Tiles :
        /\ retries = 3
        /\ t_st[t] = "done"
        /\ Len(t_hist[t]) = 3
        /\ t_backoff[t] = <<1, 2>>

FailureEntries(c, t) ==
    Cardinality({i \in 1..Len(flog) : flog[i].city = c /\ flog[i].tile = t})

Occurrences(imgs, id) == Cardinality({i \in 1..Len(imgs) : imgs[i].id = id})

\* the future of tile t has been handled by the loop, or the loop has ended
\* without handling it
Settled(t) == t \in consumed \/ (h_pc = "aborted" /\ t_st[t] = "done")

\* C19: de-duplication loses no record: every id in the filtered result of a
\* tile fetch that the harvest loop has settled is in the harvested lists
\* exactly once, and the ids marked as seen are exactly the harvested ones,
\* so an id that only failed fetches returned is still admitted later.
C19_NoRecordLost ==
    /\ \A t \in TilesOf(city) :
          Settled(t) =>
              \A i \in 1..Len(t_result[t]) :
                  t_result[t][i].id # NoId
                      => Occurrences(all_images \o city_images,
                                     t_result[t][i].id) = 1
    /\ seen_ids = IdsOf(all_images \o city_images)

(***************************************************************************)
(* Download properties                                                     *)
(***************************************************************************)
RECURSIVE SumOver(_, _)
SumOver(S, f) ==
    IF S = {} THEN 0
    ELSE LET x == CHOOSE y \in S : TRUE IN f[x] + SumOver(S \ {x}, f)

\* what a succeeded task owes the total: the existing file's size when it
\* skipped, the length of the payload it wrote when it fetched
Owed ==
    [r \in Recs |->
        IF d_gets[r] = 0 THEN files[PathOf(images_to_download[r])].size
        ELSE d_data[r]]

\* C3: when the download tasks have finished, the running byte total is the
\* sum of what the succeeded tasks added: no increment is lost.
C3_NoLostIncrement ==
    (m_pc \in {"pool", "reported"} /\ AllFinished)
        => total_size = SumOver({r \in Recs : d_ok[r]}, Owed)

\* C5: a file is at its target path only once its payload is complete, so
\* the exists-check of a run never takes a truncated file for a download.
C5_NoTruncatedFileSkipped ==
    \A r \in Recs :
        d_pc[r] \in {"skip_load", "skip_store"}
            => files[PathOf(images_to_download[r])].full

PreviousRunFetchedAll == d_run > 1 /\ prev.reported /\ prev.fetched_all

\* C6: a run that follows a run which downloaded every record ends with the
\* same byte total and the same files, and issues no asset GET.
C6_SecondRunIdempotent ==
    (PreviousRunFetchedAll /\ m_pc = "reported")
        => /\ total_size = prev.total
           /\ files = prev.files
           /\ \A r \in Recs : d_gets[r] = 0

\* the part of C6 that does not involve the byte total
C6_SecondRunSkipsAll ==
    PreviousRunFetchedAll
        => /\ files = prev.files
           /\ \A r \in Recs : d_gets[r] = 0 /\ d_pc[r] \notin {"get", "open", "write"}

\* the task of record r ended without a download: an exception left
\* download(), or it returned False
TaskFailed(r) == d_pc[r] = "raised" \/ (d_pc[r] = "done" /\ ~d_ok[r])

DownloadFailures(r) ==
    Cardinality({i \in 1..Len(failed_downloads) :
                    failed_downloads[i] = FailRecord(images_to_download[r])})

\* C11: a record's task issues at most one asset GET; once the batch loop has
\* handled it, a task that failed has contributed exactly one failure record
\* with the record's region, id and URL, and a task that succeeded or skipped
\* has contributed none; no record is contributed for a task not yet handled.
C11_OneFailureRecordPerFailedTask ==
    \A r \in Recs :
        /\ d_gets[r] <= 1
        /\ DownloadFailures(r) =
              IF r \in collected /\ TaskFailed(r) THEN 1 ELSE 0

(***************************************************************************)
(* Failure log properties                                                  *)
(***************************************************************************)
IsPrefix(a, b) == Len(a) <= Len(b) /\ SubSeq(b, 1, Len(a)) = a

\* C12: the failure log is append-only for both kinds of record: every step,
\* a later run's included, leaves the fetch-failure lines and the
\* download-failure lines written so far in place and only adds after them.
C12_FailureLogAppendOnly ==
    [][IsPrefix(flog, flog') /\ IsPrefix(fail_file, fail_file')]_vars

\* the fetch-failure half of C12, over the harvest
C12_FetchLogAppendOnly == [][IsPrefix(flog, flog')]_vars

(***************************************************************************)
(* Sampling properties                                                     *)
(***************************************************************************)
Min(a, b) == IF a <= b THEN a ELSE b

\* the regions whose iteration of the sampling loop has run
SampledCities ==
    IF h_pc = "sampled" THEN Cities
    ELSE IF h_pc = "sample" THEN 1..(city - 1)
    ELSE {}

\* C13: for every region the sampling loop has handled, the selection holds
\* exactly min(number of harvested records, IMAGES_PER_CITY) records of the
\* region, each of them one of the region's harvested records, none twice.
C13_SelectionSizeAndMembership ==
    \A c \in SampledCities :
        LET harvested == CityImgs(all_images, c)
            selected == CityImgs(images_to_download, c)
        IN /\ Len(selected) = Min(Len(harvested), IMAGES_PER_CITY)
           /\ \A i \in 1..Len(selected) :
                 \E j \in 1..Len(harvested) : selected[i] = harvested[j]
           /\ NoRepeatedId(selected)

\* a region with more records than the cap was sampled down to the cap
C13_Witness ==
    /\ h_pc = "sampled"
    /\ Len(CityImgs(all_images, 1)) > IMAGES_PER_CITY
    /\ Len(CityImgs(images_to_download, 1)) = IMAGES_PER_CITY
    /\ Len(images_to_download) = IMAGES_PER_CITY

(***************************************************************************)
(* Rate limiting of the metadata GETs                                      *)
(***************************************************************************)
\* C17: every metadata GET, a retry after backoff included, is admitted by
\* the rate limiter before it is sent: a call never has more GETs out than
\* calls of rate_limiter.wait() returned to it.
C17_EveryGetAdmitted ==
    \A t \in Tiles : Len(t_hist[t]) <= t_admitted[t]

(***************************************************************************)
(* Properties of the whole run                                             *)
(***************************************************************************)
TileTaskCompleted(t) == t_st[t] \in {"done", "none"}

\* no tile task has begun since the tasks were last set up
NoTileTaskBegun ==
    \A t \in Tiles : t_st[t] = "queued" /\ t_admitted[t] = 0 /\ t_hist[t] = <<>>

\* C14: the phases do not overlap: the main thread leaves a region (for the
\* next region or for sampling) only when every tile task of that region has
\* completed; while sampling runs and after it no tile task begins; the
\* download pool exists only once sampling has finished, and the selection
\* does not change under it.
C14_PhasesOrdered ==
    /\ [][(h_pc = "harvest" /\ (city' # city \/ h_pc' = "sample"))
              => \A t \in TilesOf(city) : TileTaskCompleted(t)]_vars
    /\ [](h_pc \in {"sample", "sampled"} => NoTileTaskBegun)
    /\ [](m_pc # "idle" => h_pc = "sampled")
    /\ [][m_pc' # "idle" => images_to_download' = images_to_download]_vars

\* both regions were harvested, the first with a retried fetch, and a
\* download task of each region's record is at work
C14_Witness ==
    /\ m_pc = "pool"
    /\ Len(images_to_download) = 3
    /\ images_to_download[1].city = 1
    /\ images_to_download[2].city = 2
    /\ d_pc[1] = "write"
    /\ d_pc[2] = "get"
    /\ flog # <<>>
    /\ rng # SEED % RngM

\* C15: whatever the fetches and the downloads do, the run goes on until its
\* final report: the script has a next step in every state but the one in
\* which the aggregate counts have been reported.
C15_RunReachesReport == m_pc = "reported" \/ ENABLED NextPipe

\* the harvest half of C15: no fetch outcome ends the harvest loop early
C15_HarvestNotAborted == h_pc # "aborted"

\* the download half of C15: no download outcome ends the batch loop early
C15_DownloadNotAborted == m_pc # "aborted"

\* C20: in one run no two download tasks target the same file path: the
\* selected records differ pairwise in (region, id), which determines the
\* path, so two workers never open or write the same file.
C20_DistinctPaths ==
    \A r, u \in Recs :
        r # u => PathOf(images_to_download[r]) # PathOf(images_to_download[u])

\* a region with more records than the cap was sampled, and the download
\* tasks of its two selected records are writing their files at once
C20_Witness ==
    /\ m_pc = "pool"
    /\ Len(CityImgs(all_images, 1)) > IMAGES_PER_CITY
    /\ Len(images_to_download) = 2
    /\ images_to_download[1].city = images_to_download[2].city
    /\ d_pc[1] = "write"
    /\ d_pc[2] = "write"

(***************************************************************************)
(* The end-to-end scenario's outcome                                       *)
(***************************************************************************)
ScenarioSizes == [r \in Recs |-> ScenarioSize(images_to_download[r].id)]

\* the scenario's outcome but for the byte total
ScenarioCounts ==
    /\ h_pc \in {"sample", "sampled"} => Len(all_images) = 6
    /\ h_pc = "sampled" => Len(images_to_download) = 5
    /\ m_pc = "reported" =>
          /\ \A r \in Recs :
                /\ d_ok[r]
                /\ d_gets[r] = 1
                /\ files[PathOf(images_to_download[r])].full
          /\ failed_downloads = <<>>
          /\ fail_file = <<>>
          /\ flog = <<>>

\* C16: in the scenario the harvested set has 6 records, the selected set 5,
\* all 5 are downloaded, the reported byte total is the sum of the 5 payload
\* sizes, and no failure record is produced.
C16_ScenarioOutcome ==
    /\ ScenarioCounts
    /\ m_pc = "reported" => total_size = SumOver(Recs, ScenarioSizes)

\* the counts of C16 without the byte total
C16_ScenarioCountsOnly == ScenarioCounts

\* the run has reported, 5 files are on disk
C16_Reported ==
    /\ m_pc = "reported"
    /\ Cardinality({p \in DOMAIN files : files[p].full}) = 5

=============================================================================
